---- MODULE Spec2Model ----
(***************************************************************************)
(* Model of the LibreOffice engine lifecycle manager (LibreOfficeConverter *)
(* in src/lib/libreoffice/converter.ts) and of the Excel-to-PDF gateway    *)
(* (ExcelToPDFProcessor.process in src/lib/pdf/processors/excel-to-pdf.ts).*)
(*                                                                         *)
(* JavaScript runs the code between two awaits atomically, so every action *)
(* below is one such stretch: the synchronous part of a call up to its     *)
(* first await, or the continuation that runs when an awaited promise      *)
(* settles.  A continuation that only hands a settled result up the call   *)
(* stack (initialize -> process) is folded into the action that settles    *)
(* it, because no other caller can observe the state in between.           *)
(***************************************************************************)
EXTENDS Integers, Sequences, FiniteSets, TLC

\* ------------------------------------------------------------------ bounds
\* Total number of top-level calls (process, initialize, convert, destroy).
MaxCalls == 3
\* Progress events the engines may fire through their onProgress hook.
MaxEngineEvents == 1

\* --------------------------------------------------------------- callers
\* One ExcelToPDFProcessor instance and one direct user of the converter
\* singleton, who can make every call on it that a second processor could.
Gateways == {"g1"}
Clients == {"c1"}
Procs == Gateways \cup Clients
NoProc == "nobody"

\* Initialization sequences are numbered in the order they start; the engine
\* a sequence constructs carries the number of its sequence.  0 is null.
SeqIds == 1..MaxCalls
Null == 0

\* ------------------------------------------------------------ file names
\* A file name is the tuple of its dot-separated parts: name.split('.').
FileNames == { <<"REPORT", "XLS">>, <<"notes", "txt">> }

\* input.files: no file, one file, two files.
FileLists ==
    { <<>>, <<(<<"book", "xlsx">>), (<<"notes", "txt">>)>> } \cup { <<n>> : n \in FileNames }

toLowerCase(s) ==
    CASE s = "XLS" -> "xls"
      [] s = "REPORT" -> "report"
      [] OTHER -> s

\* file.name.split('.').pop()?.toLowerCase() || ''
extOf(name) == IF Len(name) = 0 THEN "" ELSE toLowerCase(name[Len(name)])

validExts == {"xlsx", "xls", "ods", "csv"}

\* ------------------------------------------------------------ asset files
files == <<"soffice.wasm", "soffice.data", "soffice.js", "soffice.worker.js",
           "browser.worker.global.js">>

\* What a HEAD probe can do: res.ok, a non-ok status, or fetch rejecting.
ProbeOutcomes == {"ok", "http", "network"}

\* --------------------------------------------------------------- errors
Err(kind, file) == [kind |-> kind, file |-> file]
NoErr == Err("none", "")
EnvUnsupported == Err("SharedArrayBuffer is not available", "")
RequiredFile(f) == Err("Required file returned HTTP status", f)
CannotFetch(f) == Err("Cannot fetch", f)
EngineInitError == Err("engine initialize rejected", "")
NotInitialized == Err("Converter not initialized", "")
EngineConvertError == Err("engine convert rejected", "")
NullDereference == Err("TypeError", "")

Result(code, detail) == [code |-> code, detail |-> detail]
NoResult == Result("NONE", NoErr)

\* ------------------------------------------------------- progress events
Event(phase, percent) == [phase |-> phase, percent |-> percent]
\* What the engine may report through onProgress while it starts.
EngineEvents == { Event("loading", 50), Event("initializing", 100) }

\* An event as the callback that sequence s holds received it.
delivered(s, ev) == [seq |-> s, phase |-> ev.phase, percent |-> ev.percent]

Min(a, b) == IF a <= b THEN a ELSE b

\* Math.min(progress.percent * 0.8, 80); exact for the multiples of 5 used.
scaled(percent) == Min((percent * 4) \div 5, 80)

VARIABLES
    converter,        \* this.converter: Null or the engine's number
    initialized,      \* this.initialized
    initializing,     \* this.initializing
    isIsolated,       \* window.crossOriginIsolated
    hasSAB,           \* typeof SharedArrayBuffer !== 'undefined'
    engine,           \* engine[s]: life of the engine sequence s constructed
    owner,            \* owner[s]: the caller whose call runs sequence s
    progressCallback, \* progressCallback[s]: the closure variable is still set
    loadEvents,       \* loadEvents[p]: events handed to p's initialize() callback
    fired,            \* onProgress events the engines have fired so far
    probeLog,         \* probeLog[s]: the probes of s, <<outcome>>
    op,               \* op[p]: the top-level call p is in
    input,            \* input[p]: input.files of p's latest process() call
    pc,               \* pc[p]: where p's call is suspended
    cancelled,        \* cancelled[p]: the processor's cancellation flag
    progress,         \* progress[p]: percents handed to process()'s onProgress
    result,           \* result[p]: how p's latest call ended
    initOutcome,      \* initOutcome[p]: how initialize() ended for p's call
    entry,            \* entry[p]: what initialize() found on entry
    mySeq,            \* mySeq[p]: the sequence p's call runs, or Null
    convEngine,       \* convEngine[p]: engine whose convert p's call invoked
    convertThrew,     \* the engine's convert has thrown at least once
    calls,            \* calls[p]: top-level calls p has made so far
    seqStarts         \* initialization sequences started so far

manager == <<converter, initialized, initializing>>
environment == <<isIsolated, hasSAB>>
sequences == <<engine, owner, progressCallback, loadEvents, fired, probeLog, seqStarts>>
callers == <<op, input, pc, cancelled, progress, result, initOutcome, entry, mySeq,
             convEngine, convertThrew, calls>>
vars == <<manager, environment, sequences, callers>>

Init ==
    /\ converter = Null
    /\ initialized = FALSE
    /\ initializing = FALSE
    /\ isIsolated \in BOOLEAN
    /\ hasSAB \in BOOLEAN
    /\ engine = [s \in SeqIds |-> "none"]
    /\ owner = [s \in SeqIds |-> NoProc]
    /\ progressCallback = [s \in SeqIds |-> FALSE]
    /\ loadEvents = [p \in Procs |-> <<>>]
    /\ fired = 0
    /\ probeLog = [p \in Procs |-> <<>>]
    /\ op = [p \in Procs |-> "none"]
    /\ input = [p \in Procs |-> <<>>]
    /\ pc = [p \in Procs |-> "idle"]
    /\ cancelled = [p \in Procs |-> FALSE]
    /\ progress = [p \in Procs |-> <<>>]
    /\ result = [p \in Procs |-> NoResult]
    /\ initOutcome = [p \in Procs |-> NoErr]
    /\ entry = [p \in Procs |-> "none"]
    /\ mySeq = [p \in Procs |-> Null]
    /\ convEngine = [p \in Procs |-> Null]
    /\ convertThrew = FALSE
    /\ calls = [p \in Procs |-> 0]
    /\ seqStarts = 0

\* ------------------------------------------------------- small helpers
RECURSIVE sumOver(_, _)
sumOver(f, S) ==
    IF S = {} THEN 0
    ELSE LET x == CHOOSE y \in S : TRUE IN f[x] + sumOver(f, S \ {x})

\* Calls made so far, by all callers together.
totalCalls == sumOver(calls, Procs)

InitPending == Err("pending", "")
InitOk == Err("ok", "")

\* isReady(): initialized and the engine reference present.
isReady == initialized /\ converter # Null

\* BasePDFProcessor.updateProgress: hands the percent to this.onProgress.
updateProgress(prog, percent) == Append(prog, percent)

\* The callback process() passes to initialize():
\* (progress) => this.updateProgress(Math.min(progress.percent * 0.8, 80), ...)
\* A direct caller's callback only records the event (loadEvents).
onLoadProgress(p, prog, ev) ==
    IF p \in Gateways THEN updateProgress(prog, scaled(ev.percent)) ELSE prog

\* BasePDFProcessor.checkCancelled
checkCancelled(p) == cancelled[p]

\* createErrorOutput / createSuccessOutput for process(); a direct caller of
\* the converter sees its promise rejected or resolved.
createErrorOutput(code, detail) == Result(code, detail)
createSuccessOutput == Result("SUCCESS", NoErr)
\* Mutant: process() has no catch, the error leaves it as thrown.
rejected_Escapes(p, e) == Result("REJECTED", e)

rejected(p, e) ==
    IF op[p] = "process" THEN createErrorOutput("PROCESSING_FAILED", e)
    ELSE Result("REJECTED", e)
resolved == Result("RESOLVED", NoErr)

\* What a call of initialize() finds on entry, read off the two flags.
found ==
    IF initialized THEN "ready" ELSE IF initializing THEN "busy" ELSE "fresh"

\* Mutant: the preflight never rejects.
capabilityPreflight_Skipped == TRUE

\* if (!isIsolated || !hasSAB) throw ...
capabilityPreflight == isIsolated /\ hasSAB

\* if (this.initialized) return;
alreadyInitialized == initialized

\* Mutant: initialize() does not look at the initializing flag.
initInFlight_Unguarded == FALSE

\* if (this.initializing) { ...wait...; return; }
initInFlight == initializing

\* while (this.initializing) await new Promise(r => setTimeout(r, 100));
stillInitializing == initializing

\* Mutant: the catch block swallows a rejected fetch.
probeOk_SwallowsNetworkError(o) == o # "http"

\* if (res.ok) ... else throw; a rejected fetch is rethrown as 'Cannot fetch'.
probeOk(o) == o = "ok"

\* Mutant: no finally block, the flag is left as it is.
finallyBlock_Missing == initializing' = initializing

\* finally { this.initializing = false; }
finallyBlock == initializing' = FALSE

\* if (!this.converter) throw new Error('Converter not initialized')
convertGuard == converter # Null

\* Mutant: a failed conversion tears the engine reference down.
convertCatch_TearsDown ==
    /\ converter' = Null
    /\ initialized' = FALSE
    /\ UNCHANGED initializing

\* catch (error) { console.error(...); throw error; }: the manager is kept.
convertCatch == UNCHANGED <<converter, initialized, initializing>>

pending(f) == [file |-> f, outcome |-> "pending"]
settle(log, o) == [log EXCEPT ![Len(log)].outcome = o]

\* The engine keeps the state destroy() gave it.
engineAfter(s, state) == IF engine[s] = "destroyed" THEN "destroyed" ELSE state

\* ------------------------------------------------- LibreOfficeConverter
\* initialize(), from its entry to its first await, for caller p whose
\* progress log is prog when the call is made.
initializeEntry(p, prog) ==
    /\ UNCHANGED <<converter, initialized, engine, fired>>
    /\ entry' = [entry EXCEPT ![p] = found]
    /\ IF alreadyInitialized THEN
           /\ initOutcome' = [initOutcome EXCEPT ![p] = InitOk]
           /\ pc' = [pc EXCEPT ![p] = "i_done"]
           /\ mySeq' = [mySeq EXCEPT ![p] = Null]
           /\ progress' = [progress EXCEPT ![p] = prog]
           /\ loadEvents' = [loadEvents EXCEPT ![p] = <<>>]
           /\ probeLog' = [probeLog EXCEPT ![p] = <<>>]
           /\ UNCHANGED <<initializing, owner, progressCallback, seqStarts>>
       ELSE IF initInFlight THEN
           /\ initOutcome' = [initOutcome EXCEPT ![p] = InitPending]
           /\ pc' = [pc EXCEPT ![p] = "i_poll"]
           /\ mySeq' = [mySeq EXCEPT ![p] = Null]
           /\ progress' = [progress EXCEPT ![p] = prog]
           /\ loadEvents' = [loadEvents EXCEPT ![p] = <<>>]
           /\ probeLog' = [probeLog EXCEPT ![p] = <<>>]
           /\ UNCHANGED <<initializing, owner, progressCallback, seqStarts>>
       ELSE
           LET s == seqStarts + 1
               first == Event("loading", 0)
           IN  /\ initializing' = TRUE
               /\ seqStarts' = s
               /\ initOutcome' = [initOutcome EXCEPT ![p] = InitPending]
               /\ mySeq' = [mySeq EXCEPT ![p] = s]
               /\ owner' = [owner EXCEPT ![s] = p]
               /\ progressCallback' = [progressCallback EXCEPT ![s] = TRUE]
               /\ loadEvents' = [loadEvents EXCEPT ![p] = <<delivered(s, first)>>]
               /\ progress' = [progress EXCEPT ![p] = onLoadProgress(p, prog, first)]
               /\ IF capabilityPreflight THEN
                      /\ probeLog' = [probeLog EXCEPT ![p] = <<pending(files[1])>>]
                      /\ pc' = [pc EXCEPT ![p] = "i_probe"]
                  ELSE
                      /\ probeLog' = [probeLog EXCEPT ![p] = <<>>]
                      /\ pc' = [pc EXCEPT ![p] = "i_env"]

\* initialize() of p's call throws e: the finally block runs and the error
\* reaches the caller (process() turns it into a result).
initializeThrows(p, e) ==
    /\ finallyBlock
    /\ initOutcome' = [initOutcome EXCEPT ![p] = e]
    /\ result' = [result EXCEPT ![p] = rejected(p, e)]
    /\ pc' = [pc EXCEPT ![p] = "idle"]

\* initialize() of p's call returns: process() resumes later (i_done), a
\* direct caller's promise resolves.
initializeReturns(p) ==
    /\ initOutcome' = [initOutcome EXCEPT ![p] = InitOk]
    /\ IF op[p] = "process" THEN
           /\ pc' = [pc EXCEPT ![p] = "i_done"]
           /\ UNCHANGED result
       ELSE
           /\ pc' = [pc EXCEPT ![p] = "idle"]
           /\ result' = [result EXCEPT ![p] = resolved]

\* A direct initialize(onProgress) call.
Initialize(p) ==
    /\ p \in Clients
    /\ pc[p] = "idle"
    /\ totalCalls < MaxCalls
    /\ calls' = [calls EXCEPT ![p] = @ + 1]
    /\ op' = [op EXCEPT ![p] = "initialize"]
    /\ result' = [result EXCEPT ![p] = NoResult]
    /\ initializeEntry(p, progress[p])
    /\ UNCHANGED <<environment, input, cancelled, convEngine, convertThrew>>

\* checkEnvironment() rejected on the capability preflight.
CheckEnvironmentThrows(p) ==
    /\ pc[p] = "i_env"
    /\ initializeThrows(p, EnvUnsupported)
    /\ UNCHANGED <<converter, initialized, environment, sequences, op, input, cancelled,
                   progress, entry, mySeq, convEngine, convertThrew, calls>>

\* The HEAD probe in flight settles with outcome o.
ProbeReturns(p, o) ==
    /\ pc[p] = "i_probe"
    /\ LET s == mySeq[p]
           n == Len(probeLog[p])
           log == settle(probeLog[p], o)
           second == Event("loading", 5)
       IN  IF probeOk(o) /\ n < Len(files) THEN
               /\ probeLog' = [probeLog EXCEPT ![p] = Append(log, pending(files[n + 1]))]
               /\ UNCHANGED <<manager, engine, owner, progressCallback, loadEvents, fired,
                              seqStarts, callers>>
           ELSE IF probeOk(o) THEN
               \* checks passed: report 5%, construct the engine, start it
               /\ probeLog' = [probeLog EXCEPT ![p] = log]
               /\ loadEvents' = [loadEvents EXCEPT ![p] = Append(@, delivered(s, second))]
               /\ progress' = [progress EXCEPT ![p] = onLoadProgress(p, @, second)]
               /\ engine' = [engine EXCEPT ![s] = "starting"]
               /\ converter' = s
               /\ pc' = [pc EXCEPT ![p] = "i_start"]
               /\ UNCHANGED <<initialized, initializing, owner, progressCallback, fired,
                              seqStarts, op, input, cancelled, result, initOutcome, entry,
                              mySeq, convEngine, convertThrew, calls>>
           ELSE
               /\ probeLog' = [probeLog EXCEPT ![p] = log]
               /\ initializeThrows(p, IF o = "http" THEN RequiredFile(files[n])
                                                    ELSE CannotFetch(files[n]))
               /\ UNCHANGED <<converter, initialized, engine, owner, progressCallback,
                              loadEvents, fired, seqStarts, op, input, cancelled, progress,
                              entry, mySeq, convEngine, convertThrew, calls>>
    /\ UNCHANGED environment

\* Mutant: the relay forwards every event it gets.
forwards_Always(s) == TRUE

\* if (progressCallback && !this.initialized) progressCallback({...})
forwards(s) == progressCallback[s] /\ ~initialized

\* The engine's onProgress hook fires on engine s.
EngineProgress(s, ev) ==
    /\ engine[s] \in {"starting", "started", "failed"}
    /\ fired < MaxEngineEvents
    /\ fired' = fired + 1
    /\ IF forwards(s) THEN
           /\ loadEvents' = [loadEvents EXCEPT ![owner[s]] = Append(@, delivered(s, ev))]
           /\ progress' = [progress EXCEPT ![owner[s]] = onLoadProgress(owner[s], @, ev)]
       ELSE
           UNCHANGED <<loadEvents, progress>>
    /\ UNCHANGED <<manager, environment, engine, owner, progressCallback, probeLog,
                   seqStarts, op, input, pc, cancelled, result, initOutcome, entry, mySeq,
                   convEngine, convertThrew, calls>>

\* await this.converter.initialize() settles.
EngineInitReturns(p, ok) ==
    /\ pc[p] = "i_start"
    /\ LET s == mySeq[p]
           ready == Event("ready", 100)
       IN  IF ok THEN
               /\ initialized' = TRUE
               /\ finallyBlock
               /\ engine' = [engine EXCEPT ![s] = engineAfter(s, "started")]
               /\ loadEvents' = [loadEvents EXCEPT ![p] = Append(@, delivered(s, ready))]
               /\ progress' = [progress EXCEPT ![p] = onLoadProgress(p, @, ready)]
               /\ progressCallback' = [progressCallback EXCEPT ![s] = FALSE]
               /\ initializeReturns(p)
               /\ UNCHANGED <<converter, owner, fired, probeLog, seqStarts, op, input,
                              cancelled, entry, mySeq, convEngine, convertThrew, calls>>
           ELSE
               /\ engine' = [engine EXCEPT ![s] = engineAfter(s, "failed")]
               /\ initializeThrows(p, EngineInitError)
               /\ UNCHANGED <<converter, initialized, owner, progressCallback, loadEvents,
                              fired, probeLog, seqStarts, op, input, cancelled, progress,
                              entry, mySeq, convEngine, convertThrew, calls>>
    /\ UNCHANGED environment

\* One round of the waiter's loop.
PollTick(p) ==
    /\ pc[p] = "i_poll"
    /\ IF stillInitializing THEN
           UNCHANGED vars
       ELSE
           /\ initializeReturns(p)
           /\ UNCHANGED <<manager, environment, sequences, op, input, cancelled, progress,
                          entry, mySeq, convEngine, convertThrew, calls>>

\* convert(file, 'pdf'), from its entry to its first await (file.arrayBuffer()).
\* Gives the pc the call is left at, or "threw" for 'Converter not initialized'.
convertEntry == IF convertGuard THEN "c_buf" ELSE "threw"

\* A direct convert(file, outputFormat) call.
Convert(p) ==
    /\ p \in Clients
    /\ pc[p] = "idle"
    /\ totalCalls < MaxCalls
    /\ calls' = [calls EXCEPT ![p] = @ + 1]
    /\ op' = [op EXCEPT ![p] = "convert"]
    /\ convEngine' = [convEngine EXCEPT ![p] = Null]
    /\ IF convertEntry = "threw" THEN
           /\ result' = [result EXCEPT ![p] = Result("REJECTED", NotInitialized)]
           /\ UNCHANGED pc
       ELSE
           /\ result' = [result EXCEPT ![p] = NoResult]
           /\ pc' = [pc EXCEPT ![p] = convertEntry]
    /\ UNCHANGED <<manager, environment, sequences, input, cancelled, progress,
                   initOutcome, entry, mySeq, convertThrew>>

\* file.arrayBuffer() resolved: this.converter.convert(...) is invoked on
\* whatever this.converter holds now.
BufferReady(p) ==
    /\ pc[p] = "c_buf"
    /\ IF converter = Null THEN
           /\ result' = [result EXCEPT ![p] = rejected(p, NullDereference)]
           /\ pc' = [pc EXCEPT ![p] = "idle"]
           /\ UNCHANGED convEngine
       ELSE
           /\ convEngine' = [convEngine EXCEPT ![p] = converter]
           /\ pc' = [pc EXCEPT ![p] = "c_engine"]
           /\ UNCHANGED result
    /\ UNCHANGED <<manager, environment, sequences, op, input, cancelled, progress,
                   initOutcome, entry, mySeq, convertThrew, calls>>

\* Mutant: no checkpoint between initialize() and the conversion.
cancelledBeforeConvert_Missing(p) == FALSE

\* if (this.checkCancelled()) return ...PROCESSING_CANCELLED, before convert
cancelledBeforeConvert(p) == checkCancelled(p)

\* Mutant: no checkpoint after the conversion.
cancelledAfterConvert_Missing(p) == FALSE

\* if (this.checkCancelled()) return ...PROCESSING_CANCELLED, after convert
cancelledAfterConvert(p) == checkCancelled(p)

\* What process() does with the blob convertToPdf() returned.
afterConvert(p) ==
    IF cancelledAfterConvert(p) THEN
        /\ result' = [result EXCEPT ![p] =
                         createErrorOutput("PROCESSING_CANCELLED", NoErr)]
        /\ UNCHANGED progress
    ELSE
        /\ progress' = [progress EXCEPT ![p] = updateProgress(@, 100)]
        /\ result' = [result EXCEPT ![p] = createSuccessOutput]

\* The engine's convert settles: convert() returns the blob or rethrows.
EngineConvertReturns(p, ok) ==
    /\ pc[p] = "c_engine"
    /\ pc' = [pc EXCEPT ![p] = "idle"]
    /\ IF ~ok THEN
           /\ convertCatch
           /\ convertThrew' = TRUE
           /\ result' = [result EXCEPT ![p] = rejected(p, EngineConvertError)]
           /\ UNCHANGED progress
       ELSE IF op[p] = "process" THEN
           /\ afterConvert(p)
           /\ UNCHANGED <<manager, convertThrew>>
       ELSE
           /\ result' = [result EXCEPT ![p] = resolved]
           /\ UNCHANGED <<manager, convertThrew, progress>>
    /\ UNCHANGED <<environment, sequences, op, input, cancelled, initOutcome, entry,
                   mySeq, convEngine, calls>>

\* this.converter = null; this.initialized = false;
destroyReset ==
    /\ converter' = Null
    /\ initialized' = FALSE

\* destroy(): with an engine reference it awaits engine.destroy() first.
Destroy(p) ==
    /\ p \in Clients
    /\ pc[p] = "idle"
    /\ totalCalls < MaxCalls
    /\ calls' = [calls EXCEPT ![p] = @ + 1]
    /\ op' = [op EXCEPT ![p] = "destroy"]
    /\ IF converter # Null THEN
           /\ engine' = [engine EXCEPT ![converter] = "destroyed"]
           /\ pc' = [pc EXCEPT ![p] = "d_wait"]
           /\ result' = [result EXCEPT ![p] = NoResult]
           /\ UNCHANGED <<converter, initialized>>
       ELSE
           /\ destroyReset
           /\ result' = [result EXCEPT ![p] = resolved]
           /\ UNCHANGED <<engine, pc>>
    /\ UNCHANGED <<initializing, environment, owner, progressCallback, loadEvents, fired,
                   probeLog, seqStarts, input, cancelled, progress, initOutcome, entry,
                   mySeq, convEngine, convertThrew>>

\* await this.converter.destroy() resolved.
DestroyReturns(p) ==
    /\ pc[p] = "d_wait"
    /\ destroyReset
    /\ pc' = [pc EXCEPT ![p] = "idle"]
    /\ result' = [result EXCEPT ![p] = resolved]
    /\ UNCHANGED <<initializing, environment, sequences, op, input, cancelled, progress,
                   initOutcome, entry, mySeq, convEngine, convertThrew, calls>>

\* -------------------------------------------------- ExcelToPDFProcessor
\* BasePDFProcessor.cancel(): the caller sets the cancellation flag.
Cancel(p) ==
    /\ p \in Gateways
    /\ ~cancelled[p]
    /\ cancelled' = [cancelled EXCEPT ![p] = TRUE]
    /\ UNCHANGED <<manager, environment, sequences, op, input, pc, progress, result,
                   initOutcome, entry, mySeq, convEngine, convertThrew, calls>>

\* BasePDFProcessor.reset(), the first statement of process(): the values the
\* cancellation flag may have after it. The base class is outside the source
\* and the specification only says the flag is set by the caller, so a flag
\* set before the call is either cleared or still set.
reset(flag) == {FALSE, flag}

\* Mutant: only an empty file list is turned away.
validate_LooseChecks(fs) ==
    IF Len(fs) = 0 THEN "INVALID_OPTIONS" ELSE "ok"

\* The input checks of process(): "ok" or the error code returned.
validate(fs) ==
    IF Len(fs) # 1 THEN "INVALID_OPTIONS"
    ELSE IF extOf(fs[1]) \notin validExts THEN "FILE_TYPE_INVALID"
    ELSE "ok"

\* process(input, onProgress), from its entry to its first await.
Process(p, fs) ==
    /\ p \in Gateways
    /\ pc[p] = "idle"
    /\ totalCalls < MaxCalls
    /\ calls' = [calls EXCEPT ![p] = @ + 1]
    /\ op' = [op EXCEPT ![p] = "process"]
    /\ input' = [input EXCEPT ![p] = fs]
    /\ \E flag \in reset(cancelled[p]) : cancelled' = [cancelled EXCEPT ![p] = flag]
    /\ convEngine' = [convEngine EXCEPT ![p] = Null]
    /\ IF validate(fs) # "ok" THEN
           /\ result' = [result EXCEPT ![p] = createErrorOutput(validate(fs), NoErr)]
           /\ progress' = [progress EXCEPT ![p] = <<>>]
           /\ UNCHANGED <<manager, sequences, pc, initOutcome, entry, mySeq>>
       ELSE
           /\ result' = [result EXCEPT ![p] = NoResult]
           /\ initializeEntry(p, updateProgress(<<>>, 5))
    /\ UNCHANGED <<environment, convertThrew>>

\* initialize() returned to process(): the checkpoint, the 85% message and
\* the entry of convertToPdf(file).
AfterInitialize(p) ==
    /\ pc[p] = "i_done"
    /\ IF cancelledBeforeConvert(p) THEN
           /\ result' = [result EXCEPT ![p] =
                            createErrorOutput("PROCESSING_CANCELLED", NoErr)]
           /\ pc' = [pc EXCEPT ![p] = "idle"]
           /\ UNCHANGED progress
       ELSE
           /\ progress' = [progress EXCEPT ![p] = updateProgress(@, 85)]
           /\ IF convertEntry = "threw" THEN
                  /\ result' = [result EXCEPT ![p] = rejected(p, NotInitialized)]
                  /\ pc' = [pc EXCEPT ![p] = "idle"]
              ELSE
                  /\ pc' = [pc EXCEPT ![p] = convertEntry]
                  /\ UNCHANGED result
    /\ UNCHANGED <<manager, environment, sequences, op, input, cancelled, initOutcome,
                   entry, mySeq, convEngine, convertThrew, calls>>

\* ---------------------------------------------------------- specification
Next ==
    \/ \E p \in Gateways, fs \in FileLists : Process(p, fs)
    \/ \E p \in Gateways : Cancel(p)
    \/ \E p \in Gateways : AfterInitialize(p)
    \/ \E p \in Clients : Initialize(p)
    \/ \E p \in Clients : Convert(p)
    \/ \E p \in Clients : Destroy(p)
    \/ \E p \in Clients : DestroyReturns(p)
    \/ \E p \in Procs : CheckEnvironmentThrows(p)
    \/ \E p \in Procs, o \in ProbeOutcomes : ProbeReturns(p, o)
    \/ \E s \in SeqIds, ev \in EngineEvents : EngineProgress(s, ev)
    \/ \E p \in Procs, ok \in BOOLEAN : EngineInitReturns(p, ok)
    \/ \E p \in Procs : PollTick(p)
    \/ \E p \in Procs : BufferReady(p)
    \/ \E p \in Procs, ok \in BOOLEAN : EngineConvertReturns(p, ok)

Spec == Init /\ [][Next]_vars

\* ------------------------------------------------- specification, fair
\* A direct caller's retry loop: its initialize() rejected before an engine
\* was constructed and it calls initialize() again at once, with the same
\* callback. The call takes the branch that runs the sequence, exactly as in
\* initializeEntry; it keeps the sequence number of the attempt it repeats
\* and is not counted in calls, so a caller can retry without end.
Retry(p) ==
    /\ p \in Clients
    /\ pc[p] = "idle"
    /\ op[p] = "initialize"
    /\ result[p].code = "REJECTED"
    /\ mySeq[p] # Null
    /\ engine[mySeq[p]] = "none"
    /\ found = "fresh"
    /\ LET s == mySeq[p]
           first == Event("loading", 0)
       IN  /\ initializing' = TRUE
           /\ entry' = [entry EXCEPT ![p] = found]
           /\ initOutcome' = [initOutcome EXCEPT ![p] = InitPending]
           /\ result' = [result EXCEPT ![p] = NoResult]
           /\ progressCallback' = [progressCallback EXCEPT ![s] = TRUE]
           /\ loadEvents' = [loadEvents EXCEPT ![p] = <<delivered(s, first)>>]
           /\ progress' = [progress EXCEPT ![p] = onLoadProgress(p, @, first)]
           /\ IF capabilityPreflight THEN
                  /\ probeLog' = [probeLog EXCEPT ![p] = <<pending(files[1])>>]
                  /\ pc' = [pc EXCEPT ![p] = "i_probe"]
              ELSE
                  /\ probeLog' = [probeLog EXCEPT ![p] = <<>>]
                  /\ pc' = [pc EXCEPT ![p] = "i_env"]
    /\ UNCHANGED <<converter, initialized, environment, engine, owner, fired, seqStarts,
                   op, input, cancelled, mySeq, convEngine, convertThrew, calls>>

RetryNext ==
    \/ Next
    \/ \E p \in Clients : Retry(p)

\* Every await settles (probe, engine startup, buffer, engine convert, engine
\* destroy), every continuation runs, and the waiter's timer keeps firing: a
\* round of the loop that finds the flag cleared is taken if the flag stays
\* cleared. Nothing makes a round fall into the window in which it is.
Fairness ==
    /\ \A p \in Procs : WF_vars(PollTick(p))
    /\ \A p \in Procs : WF_vars(CheckEnvironmentThrows(p))
    /\ \A p \in Procs : WF_vars(\E o \in ProbeOutcomes : ProbeReturns(p, o))
    /\ \A p \in Procs : WF_vars(\E ok \in BOOLEAN : EngineInitReturns(p, ok))
    /\ \A p \in Procs : WF_vars(BufferReady(p))
    /\ \A p \in Procs : WF_vars(\E ok \in BOOLEAN : EngineConvertReturns(p, ok))
    /\ \A p \in Gateways : WF_vars(AfterInitialize(p))
    /\ \A p \in Clients : WF_vars(DestroyReturns(p))

FairSpec == Init /\ [][RetryNext]_vars /\ Fairness

\* ----------------------------------------------------------------- claims
\* p's call is inside the initialization sequence (preflight, probes, start).
InSequence(p) == pc[p] \in {"i_env", "i_probe", "i_start"}

AssetErrors == { RequiredFile(files[i]) : i \in 1..Len(files) }
                    \cup { CannotFetch(files[i]) : i \in 1..Len(files) }

\* C1: concurrent initialize() calls run one startup sequence: at most one
\* call is inside the sequence at a time and the flag is set while it is; the
\* call that found neither flag set runs the sequence, a call that found
\* initializing set never runs one, and a call that found initialized set
\* neither runs one nor waits.
C1_OneStartupSequence ==
    /\ Cardinality({p \in Procs : InSequence(p)}) <= 1
    /\ \A p \in Procs :
        /\ InSequence(p) => initializing /\ entry[p] = "fresh" /\ mySeq[p] # Null
        /\ entry[p] = "busy" => mySeq[p] = Null
        /\ entry[p] = "ready" => mySeq[p] = Null /\ pc[p] # "i_poll"
        /\ pc[p] = "i_poll" => entry[p] = "busy"

\* One call has the engine starting while the other waits on the flag.
C1_Witness ==
    \E p, q \in Procs : pc[p] = "i_start" /\ pc[q] = "i_poll" /\ seqStarts = 1

\* C2: a caller that waited on an initialization in flight returns success
\* only if the manager is initialized when it returns.
C2_WaiterSharesOutcome ==
    [][\A p \in Procs :
         (pc[p] = "i_poll" /\ pc'[p] # "i_poll" /\ initOutcome'[p] = InitOk)
             => initialized']_vars

\* C3: a convert() call gets past the not-initialized check only when
\* isReady() holds.
C3_ConvertRequiresReady ==
    [][\A p \in Procs : (pc[p] # "c_buf" /\ pc'[p] = "c_buf") => isReady]_vars

\* The errors initialize() can throw from where p's call is suspended.
stageErrors(p) ==
    CASE pc[p] = "i_env" -> {EnvUnsupported}
      [] pc[p] = "i_probe" -> AssetErrors
      [] pc[p] = "i_start" -> {EngineInitError}
      [] OTHER -> {}

\* C4: when the sequence of p's call ends in failure, the step that ends it
\* hands the step's error to p, and leaves initialized and initializing
\* false; and a call made while both flags are false starts the sequence at
\* its first step (the preflight) instead of returning or waiting.
C4_FailureLeavesRetryable ==
    [][\A p \in Procs :
         /\ (InSequence(p) /\ ~InSequence(p)' /\ initOutcome'[p] # InitOk) =>
               /\ ~initialized' /\ ~initializing'
               /\ initOutcome'[p] \in stageErrors(p)
               /\ result'[p] = rejected(p, initOutcome'[p])
               /\ pc'[p] = "idle"
         /\ (InSequence(p) /\ ~InSequence(p)' /\ initOutcome'[p] = InitOk) =>
               initialized' /\ ~initializing'
         /\ (calls'[p] # calls[p] /\ op'[p] \in {"process", "initialize"}
                /\ pc'[p] # "idle" /\ ~initialized /\ ~initializing) =>
               /\ seqStarts' = seqStarts + 1
               /\ mySeq'[p] = seqStarts'
               /\ pc'[p] \in {"i_env", "i_probe"}
               /\ Len(probeLog'[p]) <= 1]_vars

\* The first sequence failed and a later call is running the second one.
C4_Witness ==
    /\ seqStarts = 2
    /\ engine[1] \in {"none", "failed"}
    /\ ~initialized
    /\ \E p \in Procs : InSequence(p) /\ mySeq[p] = 2

nonDecreasing(sq) == \A i \in 1..(Len(sq) - 1) : sq[i] <= sq[i + 1]

\* C5: the percents a successful process() call handed to its callback are
\* non-decreasing and end at 100.
C5_ProgressMonotoneTo100 ==
    \A g \in Gateways :
        (pc[g] = "idle" /\ result[g].code = "SUCCESS") =>
            /\ nonDecreasing(progress[g])
            /\ Len(progress[g]) > 0
            /\ progress[g][Len(progress[g])] = 100

\* C6: the step in which the engine's convert throws leaves converter,
\* initialized, initializing and the engines as they were; and while the
\* manager is ready a process() call goes from its entry through the
\* checkpoint to the engine's convert without starting a sequence.
C6_ConvertFailureKeepsEngine ==
    [][\A p \in Procs :
         /\ (pc[p] = "c_engine" /\ result'[p].detail = EngineConvertError) =>
               /\ converter' = converter /\ initialized' = initialized
               /\ initializing' = initializing /\ engine' = engine
         /\ (isReady /\ calls'[p] # calls[p] /\ op'[p] = "process"
                /\ pc'[p] # "idle") =>
               pc'[p] = "i_done" /\ seqStarts' = seqStarts
         /\ (isReady /\ pc[p] = "i_done" /\ pc'[p] # "i_done" /\ ~cancelled[p]) =>
               pc'[p] = "c_buf" /\ seqStarts' = seqStarts
         /\ (isReady /\ pc[p] = "c_buf" /\ pc'[p] # "c_buf") =>
               pc'[p] = "c_engine" /\ convEngine'[p] = converter]_vars

\* The processor's first conversion threw in the engine; its second one is
\* inside the engine's convert, and only one sequence ever ran.
C6_Witness ==
    /\ convertThrew
    /\ \A c \in Clients : calls[c] = 0
    /\ \E g \in Gateways :
          calls[g] = 2 /\ pc[g] = "c_engine" /\ entry[g] = "ready" /\ seqStarts = 1

\* C7: in an environment that fails the preflight no probe is issued, no
\* engine is constructed or started, and every call that ran the sequence
\* ended with the environment error.
C7_PreflightFailureStopsEarly ==
    ~(isIsolated /\ hasSAB) =>
        /\ \A s \in SeqIds : engine[s] = "none"
        /\ converter = Null /\ ~initialized
        /\ \A p \in Procs :
            /\ probeLog[p] = <<>>
            /\ pc[p] \notin {"i_probe", "i_start"}
            /\ entry[p] = "fresh" =>
                  IF pc[p] = "i_env" THEN initOutcome[p] = InitPending
                  ELSE initOutcome[p] = EnvUnsupported
            /\ (pc[p] = "idle" /\ result[p].detail.kind \notin {"none", "Converter not initialized"}) =>
                  result[p] = rejected(p, EnvUnsupported)

C7_Witness ==
    \E p \in Procs : pc[p] = "idle" /\ initOutcome[p] = EnvUnsupported

\* C8: the probes of a call are a prefix of the fixed file order, every
\* probe before the last one succeeded, a failed last probe is the error
\* initialize() threw (naming that file) with no engine constructed, and an
\* engine is constructed only after all five probes succeeded.
C8_ProbesInOrderStopAtFirstFailure ==
    \A p \in Procs :
        LET log == probeLog[p]
            n == Len(log)
        IN  /\ n <= Len(files)
            /\ \A i \in 1..n : log[i].file = files[i]
            /\ \A i \in 1..(n - 1) : log[i].outcome = "ok"
            /\ (n > 0 /\ log[n].outcome = "pending") => pc[p] = "i_probe"
            /\ (n > 0 /\ log[n].outcome = "http") =>
                  /\ initOutcome[p] = RequiredFile(files[n])
                  /\ mySeq[p] # Null /\ engine[mySeq[p]] = "none"
            /\ (n > 0 /\ log[n].outcome = "network") =>
                  /\ initOutcome[p] = CannotFetch(files[n])
                  /\ mySeq[p] # Null /\ engine[mySeq[p]] = "none"
            /\ initOutcome[p] \in AssetErrors =>
                  n > 0 /\ log[n].outcome \in {"http", "network"}
            /\ (mySeq[p] # Null /\ engine[mySeq[p]] # "none") =>
                  n = Len(files) /\ log[n].outcome = "ok"

\* The third probe (soffice.js) came back with a non-success status.
C8_Witness ==
    \E p \in Procs :
        /\ Len(probeLog[p]) = 3
        /\ probeLog[p][3].outcome = "http"
        /\ result[p].detail = RequiredFile("soffice.js")

\* The last segment of the name in lower case, and the allow-list.
invalidCount(fs) == Len(fs) # 1
invalidType(fs) ==
    Len(fs) = 1 /\ toLowerCase(fs[1][Len(fs[1])]) \notin {"xlsx", "xls", "ods", "csv"}

\* C9: the step of a process() call whose input fails validation returns
\* INVALID_OPTIONS (file count) or FILE_TYPE_INVALID (extension) at once,
\* with no progress reported, and changes nothing of the manager, the
\* engines, the sequences or the record of the caller's last initialize():
\* the call enters neither initialize() nor convert().
C9_InvalidInputTouchesNothing ==
    [][\A g \in Gateways :
         (calls'[g] # calls[g] /\ (invalidCount(input'[g]) \/ invalidType(input'[g]))) =>
             /\ result'[g].code = IF invalidCount(input'[g]) THEN "INVALID_OPTIONS"
                                  ELSE "FILE_TYPE_INVALID"
             /\ pc'[g] = "idle"
             /\ convEngine'[g] = Null
             /\ progress'[g] = <<>>
             /\ UNCHANGED <<manager, sequences, initOutcome, entry, mySeq>>]_vars

\* A file of the wrong type was turned away while an initialization that
\* another caller started is in flight.
C9_Witness ==
    \E g \in Gateways :
        /\ pc[g] = "idle"
        /\ result[g].code = "FILE_TYPE_INVALID"
        /\ input[g] = <<(<<"notes", "txt">>)>>
        /\ initializing

\* C10: when process() reaches the checkpoint after initialize() with the
\* cancellation flag set, it returns PROCESSING_CANCELLED and the call has
\* not invoked, and will not invoke, the engine's convert.
C10_CancelBeforeConvert ==
    [][\A g \in Gateways :
         (pc[g] = "i_done" /\ cancelled[g] /\ pc'[g] # "i_done") =>
             /\ result'[g].code = "PROCESSING_CANCELLED"
             /\ pc'[g] = "idle"
             /\ convEngine'[g] = Null
             /\ progress'[g] = progress[g]]_vars

\* A call was cancelled at the first checkpoint of an initialized manager.
C10_Witness ==
    \E g \in Gateways :
        /\ pc[g] = "idle"
        /\ result[g].code = "PROCESSING_CANCELLED"
        /\ cancelled[g]
        /\ convEngine[g] = Null
        /\ isReady

\* C11: a process() call with valid input whose cancellation flag is set
\* when it would call initialize() returns PROCESSING_CANCELLED in that same
\* step and starts no initialization sequence.
C11_CancelBeforeInitialize ==
    [][\A g \in Gateways :
         (calls'[g] # calls[g] /\ validate(input'[g]) = "ok" /\ cancelled'[g]) =>
             /\ result'[g].code = "PROCESSING_CANCELLED"
             /\ pc'[g] = "idle"
             /\ seqStarts' = seqStarts
             /\ UNCHANGED manager]_vars

StructuredCodes ==
    {"INVALID_OPTIONS", "FILE_TYPE_INVALID", "PROCESSING_CANCELLED",
     "PROCESSING_FAILED", "SUCCESS"}

\* The error the manager raises in the step that ends g's call from pc[g].
raisedBy(g) ==
    CASE pc[g] = "i_env" -> EnvUnsupported
      [] pc[g] = "i_probe" ->
            LET last == probeLog'[g][Len(probeLog'[g])]
            IN  IF last.outcome = "http" THEN RequiredFile(last.file)
                ELSE CannotFetch(last.file)
      [] pc[g] = "i_start" -> EngineInitError
      [] pc[g] = "i_done" -> NotInitialized
      [] pc[g] = "c_buf" -> NullDereference
      [] OTHER -> EngineConvertError

\* C12: the step that ends a process() call leaves a structured result; when
\* the manager raised an error in initialize() or convert() (environment,
\* asset, engine startup, not initialized, engine convert) the result is
\* PROCESSING_FAILED with that error as its detail. The only other ways a
\* call ends after validation are the two cancellation checkpoints and
\* success.
C12_ErrorsBecomeProcessingFailed ==
    [][\A g \in Gateways :
         (op[g] = "process" /\ pc[g] # "idle" /\ pc'[g] = "idle") =>
             /\ result'[g].code \in StructuredCodes
             /\ \/ result'[g] = Result("PROCESSING_FAILED", raisedBy(g))
                \/ /\ pc[g] \in {"i_done", "c_engine"}
                   /\ cancelled[g]
                   /\ result'[g] = Result("PROCESSING_CANCELLED", NoErr)
                \/ /\ pc[g] = "c_engine"
                   /\ ~cancelled[g]
                   /\ result'[g] = Result("SUCCESS", NoErr)]_vars

\* A process() call ended with the engine's startup error as its detail.
C12_Witness ==
    \E g \in Gateways :
        /\ op[g] = "process"
        /\ pc[g] = "idle"
        /\ result[g] = Result("PROCESSING_FAILED", EngineInitError)

\* C13: destroy() invokes the engine's destroy exactly when an engine
\* reference exists, and the step that completes it leaves initialized false,
\* the reference absent and isReady() false; after a destroy() that released
\* an engine, a call of initialize() would find neither flag set and run the
\* sequence itself.
C13_DestroyResets ==
    [][\A c \in Clients :
         /\ (calls'[c] # calls[c] /\ op'[c] = "destroy") =>
                IF converter # Null
                THEN engine' = [engine EXCEPT ![converter] = "destroyed"]
                ELSE engine' = engine
         /\ (op'[c] = "destroy" /\ pc'[c] = "idle"
                /\ (pc[c] = "d_wait" \/ calls'[c] # calls[c])) =>
                /\ ~initialized'
                /\ converter' = Null
                /\ ~isReady'
                /\ pc[c] = "d_wait" => found' = "fresh"]_vars

\* The events of log that came through the callback held by sequence s.
ofSeq(log, s) == SelectSeq(log, LAMBDA e : e.seq = s)
isReadyEvent(e) == e.phase = "ready" /\ e.percent = 100
endsReady(sq) == Len(sq) > 0 /\ isReadyEvent(sq[Len(sq)])

\* C14: the step in which a sequence succeeds hands 'ready' 100 to the
\* callback of the call that ran it, as the first 'ready' it gets; after
\* that the callback of that sequence receives nothing more; and an engine
\* progress event that fires while the manager is initialized is forwarded
\* to nobody.
C14_ReadyIsLastEvent ==
    [][/\ \A p \in Procs :
            (pc[p] = "i_start" /\ pc'[p] = "i_done") =>
                LET s == mySeq[p]
                    before == ofSeq(loadEvents[p], s)
                IN  /\ \A i \in 1..Len(before) : ~isReadyEvent(before[i])
                    /\ ofSeq(loadEvents'[p], s) =
                           Append(before, delivered(s, Event("ready", 100)))
       /\ \A s \in SeqIds :
            (owner[s] # NoProc /\ endsReady(ofSeq(loadEvents[owner[s]], s))) =>
                ofSeq(loadEvents'[owner[s]], s) \in
                    { ofSeq(loadEvents[owner[s]], s), <<>> }
       /\ (fired' # fired /\ initialized) =>
              UNCHANGED <<loadEvents, progress>>]_vars

\* An initialization succeeded, an engine event fired afterwards, and the
\* log of the call that ran the sequence still ends with its 'ready' event:
\* loading 0, loading 5, ready 100.
C14_Witness ==
    \E p \in Procs :
        /\ mySeq[p] # Null
        /\ initOutcome[p] = InitOk
        /\ engine[mySeq[p]] = "started"
        /\ fired = MaxEngineEvents
        /\ Len(loadEvents[p]) = 3
        /\ endsReady(ofSeq(loadEvents[p], mySeq[p]))

\* C15: setting the cancellation flag while the engine's convert is pending
\* changes nothing but the flag (the call stays in the engine, the manager
\* is as it was); when the engine call then completes, the step leaves the
\* manager unchanged and process() returns PROCESSING_CANCELLED, with no
\* success result and no 100% event.
C15_CancelDuringConvert ==
    [][\A g \in Gateways :
         /\ (pc[g] = "c_engine" /\ ~cancelled[g] /\ cancelled'[g]) =>
                /\ pc'[g] = "c_engine"
                /\ convEngine'[g] = convEngine[g]
                /\ UNCHANGED <<manager, engine, result, progress>>
         /\ (pc[g] = "c_engine" /\ cancelled[g] /\ pc'[g] # "c_engine"
                /\ result'[g].code # "PROCESSING_FAILED") =>
                /\ result'[g] = Result("PROCESSING_CANCELLED", NoErr)
                /\ pc'[g] = "idle"
                /\ progress'[g] = progress[g]
                /\ \A i \in 1..Len(progress'[g]) : progress'[g][i] # 100
                /\ UNCHANGED <<manager, engine>>]_vars

\* A call cancelled while its conversion was in the engine has returned
\* PROCESSING_CANCELLED after the 85% message.
C15_Witness ==
    \E g \in Gateways :
        /\ pc[g] = "idle"
        /\ result[g].code = "PROCESSING_CANCELLED"
        /\ cancelled[g]
        /\ convEngine[g] # Null
        /\ Len(progress[g]) > 0
        /\ progress[g][Len(progress[g])] = 85

\* C16: in every reachable state initialized implies that the engine
\* reference is present, so isReady() is equivalent to initialized.
C16_InitializedHasEngine ==
    /\ initialized => converter # Null
    /\ isReady <=> initialized

\* Engines that were constructed and have not been destroyed.
liveEngines == { s \in SeqIds : engine[s] \in {"starting", "started", "failed"} }

\* C17: at most one engine is constructed and not destroyed at any time, and
\* an engine that is constructed and not destroyed is the one the manager
\* references.
C17_AtMostOneLiveEngine ==
    /\ Cardinality(liveEngines) <= 1
    /\ \A s \in liveEngines : converter = s

\* p is inside a call of initialize().
InInitialize(p) == pc[p] \in {"i_env", "i_probe", "i_start", "i_poll"}

\* C18: with every probe and engine startup settling and every continuation
\* and timer run, a call of initialize() eventually returns; in particular a
\* caller in the polling loop eventually leaves it.
C18_InitializeReturns ==
    \A p \in Procs : InInitialize(p) ~> ~InInitialize(p)
====
